---- MODULE Spec2Model ----
(***************************************************************************)
(* Model of the position ledger of yumeow0122/BinanceTrading:              *)
(* src/module/PortfolioManager.py, class PortfolioManager.                 *)
(*                                                                         *)
(* Numbers.  The Python code computes on floats; the model computes the    *)
(* same expressions exactly, on integers in fixed units:                   *)
(*   - a quantity (position, size) is an integer count of 10^-precision,   *)
(*     i.e. real quantity = q / QtyDen;                                    *)
(*   - a price is a non-negative integer;                                  *)
(*   - money (capital, fee, margin, gain) is an integer count of           *)
(*     1 / MoneyScale, MoneyScale = QtyDen * FeeDen * LevScale, the unit   *)
(*     in which every fee, margin cost and gain of the model is exact.     *)
(* Binary rounding of the float operations is not modelled in this part.   *)
(*                                                                         *)
(* Further parts:                                                          *)
(*   - "update_balance and a second thread" (SpecThreads) runs             *)
(*     update_balance line by line next to a get_status caller;            *)
(*   - "binary64 numbers" and "the ledger on binary64 numbers"             *)
(*     (SpecTrading) model the same ledger, its sizing and status          *)
(*     queries and the handlers of src/TradingAgent.py on IEEE-754         *)
(*     binary64 numbers, for the operations whose rounding matters;        *)
(*   - "truncate_to_precision called on its own" (SpecTruncate),           *)
(*     "BacktestAgent" (SpecBacktest: open_position, close_position and    *)
(*     analyze of src/BacktestAgent.py called in any order) and "the       *)
(*     strategy loop" (SpecStrategy: the loop of its __main__ followed     *)
(*     by analyze) run on the same binary64 ledger.                        *)
(***************************************************************************)
EXTENDS Integers, FiniteSets, Sequences, TLC

\* ---------------------------------------------------------------- bounds
\* number of update_balance calls explored in one behaviour
MaxCalls == 3
\* leverages a ledger is constructed with: 1..MaxLeverage
MaxLeverage == 2

\* ------------------------------------------------------ program constants
\* fee_rate = 0.001 = FeeNum / FeeDen   (PortfolioManager.__init__ default)
FeeNum == 1
FeeDen == 1000
\* precision = 3 decimal places of a quantity
precision == 3

Leverages == 1..MaxLeverage

RECURSIVE Pow10(_)
Pow10(n) == IF n = 0 THEN 1 ELSE 10 * Pow10(n - 1)

RECURSIVE Fact(_)
Fact(n) == IF n <= 1 THEN 1 ELSE n * Fact(n - 1)

\* quantities are counted in units of 1/QtyDen
QtyDen == Pow10(precision)
\* a common multiple of all leverages, so that x / leverage is exact
LevScale == Fact(MaxLeverage)
\* money is counted in units of 1/MoneyScale
MoneyScale == QtyDen * FeeDen * LevScale

Abs(x) == IF x < 0 THEN -x ELSE x

\* --------------------------------------------------------------- inputs
\* initial_capital values a ledger is constructed with: 100 (the default)
\* and 100.1 (the cost of one unit at price 100, leverage 1, fee included)
InitialCapitals == {100 * MoneyScale, 1001 * (MoneyScale \div 10)}
\* position arguments of update_balance: -1.0, 0 (the default), 1.0, 2.0
Quantities == {-QtyDen, 0, QtyDen, 2 * QtyDen}
\* price arguments of update_balance: 0 is the default of the signature
Prices == {0, 90, 100, 110}
\* trade_type arguments: "" is the default of the signature
TradeTypes == {"open", "close", ""}

\* the Python value None of __open_price (prices are never negative)
None == -1
\* what a call returns: None, or a number
ReturnNone == [is_none |-> TRUE, value |-> 0]
ReturnValue(x) == [is_none |-> FALSE, value |-> x]

VARIABLES
    initial_capital,    \* self.initial_capital
    capital,            \* self.capital
    available_capital,  \* self.available_capital
    position,           \* self.position
    open_price,         \* self.__open_price
    leverage,           \* self.leverage
    call,               \* arguments of the latest update_balance call
    raised,             \* exception raised by the latest call, or "none"
    returned,           \* value returned by the latest call, or None
    ncalls,             \* number of update_balance calls made so far
    capital_before_open,\* history: self.capital just before the latest
                        \* successful open (what a caller reads before it
                        \* opens, as test_update_balance does)
    trades,             \* TradingAgent.trades
    sent,               \* number of messages handed to the notifier
    pc,                 \* the line an update_balance call in progress is
                        \* at, with its locals
    observed,           \* what the latest get_status call of a second
                        \* thread returned
    trade_log,          \* BacktestAgent.trade_log
    profit_log          \* BacktestAgent.profit_log

ledger == <<initial_capital, capital, available_capital, position, open_price>>
vars == <<initial_capital, capital, available_capital, position, open_price,
          leverage, call, raised, returned, ncalls, capital_before_open,
          trades, sent, pc, observed, trade_log, profit_log>>

NoCall == [position |-> 0, price |-> 0, trade_type |-> "init"]

\* no call of update_balance is in progress
Idle == [line |-> 0, gain |-> 0, before |-> <<>>]
\* get_status was not called by a second thread yet
NoStatus == [raised |-> "none", capital |-> 0, position |-> 0,
             available_capital |-> 0]
NotObserved == [status |-> NoStatus, before |-> NoStatus, after |-> NoStatus]

\* PortfolioManager.__init__
Init ==
    /\ initial_capital \in InitialCapitals
    /\ capital = initial_capital
    /\ available_capital = initial_capital
    /\ position = 0
    /\ open_price = None
    /\ leverage \in Leverages
    /\ call = NoCall
    /\ raised = "none"
    /\ returned = ReturnNone
    /\ ncalls = 0
    /\ capital_before_open = initial_capital
    /\ trades = <<>>
    /\ sent = 0
    /\ pc = Idle
    /\ observed = NotObserved
    /\ trade_log = <<>>
    /\ profit_log = <<>>

\* line 48: fee = abs(position) * price * self.fee_rate
fee(pos, price) == Abs(pos) * price * FeeNum * LevScale

\* line 49: margin_cost = abs(position) * price / self.leverage
margin_cost(pos, price) == Abs(pos) * price * FeeDen * (LevScale \div leverage)

\* line 55: total_cost = margin_cost + fee
total_cost(pos, price) == margin_cost(pos, price) + fee(pos, price)

gain_Unsigned(price) ==
    Abs(position) * (price - open_price) * FeeDen * LevScale

\* line 68: gain = self.position * (price - self.__open_price)
gain(price) == position * (price - open_price) * FeeDen * LevScale

AlreadyOpen_LongOnly == position > 0

AlreadyOpen_Never == FALSE

\* line 52: if self.position != 0: raise
AlreadyOpen == position # 0

NotEnoughCapital_Geq(pos, price) == total_cost(pos, price) >= available_capital

\* line 56: if total_cost > self.available_capital: raise
NotEnoughCapital(pos, price) == total_cost(pos, price) > available_capital

NoOpenPosition_ByPrice == open_price = None

\* line 65: if self.position == 0: raise
NoOpenPosition == position = 0

\* line 51: if trade_type == "open"
IsOpen(trade_type) == trade_type = "open"

IsClose_AnyOther(trade_type) == trade_type # "open"

\* line 64: elif trade_type == "close"
IsClose(trade_type) == trade_type = "close"

\* lines 53, 57, 66, 74: raise ValueError(...); every raise precedes the
\* first assignment of the call
Raise(kind) ==
    /\ raised' = kind
    /\ returned' = ReturnNone
    /\ UNCHANGED <<ledger, capital_before_open>>

OpenCommit_FeeNotReserved(pos, price) ==
    /\ position' = pos
    /\ open_price' = price
    /\ capital' = capital - fee(pos, price)
    /\ available_capital' = available_capital - margin_cost(pos, price)
    /\ UNCHANGED initial_capital
    /\ raised' = "none"
    /\ returned' = ReturnNone
    /\ capital_before_open' = capital

OpenCommit_UnleveragedMargin(pos, price) ==
    /\ position' = pos
    /\ open_price' = price
    /\ capital' = capital - fee(pos, price)
    /\ available_capital' =
           available_capital
               - (Abs(pos) * price * FeeDen * LevScale + fee(pos, price))
    /\ UNCHANGED initial_capital
    /\ raised' = "none"
    /\ returned' = ReturnNone
    /\ capital_before_open' = capital

\* lines 59-62: the assignments of a successful open
OpenCommit(pos, price) ==
    /\ position' = pos
    /\ open_price' = price
    /\ capital' = capital - fee(pos, price)
    /\ available_capital' = available_capital - total_cost(pos, price)
    /\ UNCHANGED initial_capital
    /\ raised' = "none"
    /\ returned' = ReturnNone
    /\ capital_before_open' = capital

CloseCommit_StaleAvailable(pos, price) ==
    /\ capital' = capital + gain(price) - fee(pos, price)
    /\ available_capital' = capital
    /\ position' = 0
    /\ UNCHANGED <<open_price, initial_capital, capital_before_open>>
    /\ raised' = "none"
    /\ returned' = ReturnValue(gain(price))

CloseCommit_MarginKept(pos, price) ==
    /\ capital' = capital + gain(price) - fee(pos, price)
    /\ available_capital' = available_capital + gain(price) - fee(pos, price)
    /\ position' = 0
    /\ UNCHANGED <<open_price, initial_capital, capital_before_open>>
    /\ raised' = "none"
    /\ returned' = ReturnValue(gain(price))

CloseCommit_PositionKept(pos, price) ==
    /\ capital' = capital + gain(price) - fee(pos, price)
    /\ available_capital' = capital'
    /\ UNCHANGED <<position, open_price, initial_capital, capital_before_open>>
    /\ raised' = "none"
    /\ returned' = ReturnValue(gain(price))

\* lines 68-72: the assignments of a successful close; __open_price is
\* not assigned
CloseCommit(pos, price) ==
    /\ capital' = capital + gain(price) - fee(pos, price)
    /\ available_capital' = capital'
    /\ position' = 0
    /\ UNCHANGED <<open_price, initial_capital, capital_before_open>>
    /\ raised' = "none"
    /\ returned' = ReturnValue(gain(price))

\* PortfolioManager.update_balance(position, price, trade_type)
update_balance(pos, price, trade_type) ==
    /\ ncalls < MaxCalls
    /\ ncalls' = ncalls + 1
    /\ call' = [position |-> pos, price |-> price, trade_type |-> trade_type]
    /\ UNCHANGED <<leverage, trades, sent, pc, observed, trade_log, profit_log>>
    /\ IF IsOpen(trade_type)
       THEN IF AlreadyOpen
            THEN Raise("AlreadyOpen")
            ELSE IF NotEnoughCapital(pos, price)
                 THEN Raise("InsufficientCapital")
                 ELSE OpenCommit(pos, price)
       ELSE IF IsClose(trade_type)
            THEN IF NoOpenPosition
                 THEN Raise("NoOpenPosition")
                 ELSE CloseCommit(pos, price)
            ELSE Raise("InvalidAction")

Next ==
    \E pos \in Quantities, price \in Prices, trade_type \in TradeTypes :
        update_balance(pos, price, trade_type)

Spec == Init /\ [][Next]_vars

\* ===================================== update_balance and a second thread
\* PortfolioManager holds no lock, and a Python thread can be switched
\* between any two lines.  Here a call of update_balance runs line by line
\* while a second thread calls get_status; each get_status call runs as a
\* whole between two lines of update_balance.

\* bound: number of update_balance calls begun in one behaviour
MaxThreadCalls == 2

\* arguments of the calls of this part
ThreadQuantities == {-QtyDen, QtyDen}
ThreadPrices == {90, 110}
ThreadTradeTypes == {"open", "close"}

\* the four fields a reader of the ledger looks at
Fields == [capital |-> capital, available_capital |-> available_capital,
           position |-> position, open_price |-> open_price]

\* the fields once the open call c has finished, from the fields f before it
AfterOpen(f, c) ==
    [capital |-> f.capital - fee(c.position, c.price),
     available_capital |->
         f.available_capital - total_cost(c.position, c.price),
     position |-> c.position,
     open_price |-> c.price]

\* the fields once the close call c has finished, from the fields f before it
AfterClose(f, c) ==
    LET after == f.capital
                 + f.position * (c.price - f.open_price) * FeeDen * LevScale
                 - fee(c.position, c.price)
    IN  [capital |-> after, available_capital |-> after,
         position |-> 0, open_price |-> f.open_price]

\* lines 81-87: what get_status(price) returns from the fields f; with a
\* position and no open price, line 81 subtracts None from a number
StatusOf(f, price) ==
    IF f.position # 0 /\ f.open_price = None
    THEN [NoStatus EXCEPT !.raised = "TypeError"]
    ELSE [raised |-> "none",
          capital |-> f.capital
              + (IF f.position # 0
                 THEN f.position * (price - f.open_price) * FeeDen * LevScale
                 ELSE 0),
          position |-> f.position,
          available_capital |-> f.available_capital]

\* lines 48-58 and 64-68: the call begins; it raises, or it reaches its
\* first assignment
begin_update_balance(pos, price, trade_type) ==
    /\ pc.line = 0
    /\ ncalls < MaxThreadCalls
    /\ ncalls' = ncalls + 1
    /\ call' = [position |-> pos, price |-> price, trade_type |-> trade_type]
    /\ UNCHANGED <<leverage, trades, sent, observed, trade_log, profit_log>>
    /\ IF IsOpen(trade_type)
       THEN IF AlreadyOpen
            THEN Raise("AlreadyOpen") /\ UNCHANGED pc
            ELSE IF NotEnoughCapital(pos, price)
                 THEN Raise("InsufficientCapital") /\ UNCHANGED pc
                 ELSE /\ pc' = [line |-> 59, gain |-> 0, before |-> Fields]
                      /\ raised' = "none"
                      /\ returned' = ReturnNone
                      /\ UNCHANGED <<ledger, capital_before_open>>
       ELSE IF NoOpenPosition
            THEN Raise("NoOpenPosition") /\ UNCHANGED pc
            ELSE /\ pc' = [line |-> 69, gain |-> gain(price),
                           before |-> Fields]
                 /\ raised' = "none"
                 /\ returned' = ReturnNone
                 /\ UNCHANGED <<ledger, capital_before_open>>

\* what a line of update_balance leaves alone besides the ledger
LineFrame ==
    UNCHANGED <<initial_capital, leverage, call, raised, ncalls, trades,
                sent, observed, trade_log, profit_log>>

\* line 59: self.position = position
line59 ==
    /\ pc.line = 59
    /\ position' = call.position
    /\ pc' = [pc EXCEPT !.line = 60]
    /\ LineFrame
    /\ UNCHANGED <<capital, available_capital, open_price, returned,
                   capital_before_open>>

\* line 60: self.__open_price = price
line60 ==
    /\ pc.line = 60
    /\ open_price' = call.price
    /\ pc' = [pc EXCEPT !.line = 61]
    /\ LineFrame
    /\ UNCHANGED <<capital, available_capital, position, returned,
                   capital_before_open>>

\* line 61: self.capital -= fee
line61 ==
    /\ pc.line = 61
    /\ capital' = capital - fee(call.position, call.price)
    /\ capital_before_open' = capital
    /\ pc' = [pc EXCEPT !.line = 62]
    /\ LineFrame
    /\ UNCHANGED <<available_capital, position, open_price, returned>>

\* line 62: self.available_capital -= total_cost, and the call returns
line62 ==
    /\ pc.line = 62
    /\ available_capital' =
           available_capital - total_cost(call.position, call.price)
    /\ pc' = Idle
    /\ LineFrame
    /\ UNCHANGED <<capital, position, open_price, returned,
                   capital_before_open>>

\* line 69: self.capital += gain - fee
line69 ==
    /\ pc.line = 69
    /\ capital' = capital + pc.gain - fee(call.position, call.price)
    /\ pc' = [pc EXCEPT !.line = 70]
    /\ LineFrame
    /\ UNCHANGED <<available_capital, position, open_price, returned,
                   capital_before_open>>

\* line 70: self.available_capital = self.capital
line70 ==
    /\ pc.line = 70
    /\ available_capital' = capital
    /\ pc' = [pc EXCEPT !.line = 71]
    /\ LineFrame
    /\ UNCHANGED <<capital, position, open_price, returned,
                   capital_before_open>>

\* lines 71-72: self.position = 0; return gain
line71 ==
    /\ pc.line = 71
    /\ position' = 0
    /\ returned' = ReturnValue(pc.gain)
    /\ pc' = Idle
    /\ LineFrame
    /\ UNCHANGED <<capital, available_capital, open_price,
                   capital_before_open>>

\* get_status(price) called by the second thread: what it returns, with
\* what it would have returned before and after the update_balance call
\* in progress
get_status_thread(price) ==
    /\ observed' =
           [status |-> StatusOf(Fields, price),
            before |-> StatusOf(IF pc.line = 0 THEN Fields ELSE pc.before,
                                price),
            after |-> StatusOf(IF pc.line = 0 THEN Fields
                               ELSE IF IsOpen(call.trade_type)
                                    THEN AfterOpen(pc.before, call)
                                    ELSE AfterClose(pc.before, call),
                               price)]
    /\ UNCHANGED <<ledger, leverage, call, raised, returned, ncalls,
                   capital_before_open, trades, sent, pc, trade_log,
                   profit_log>>

NextThreads ==
    \/ \E pos \in ThreadQuantities, price \in ThreadPrices,
          trade_type \in ThreadTradeTypes :
              begin_update_balance(pos, price, trade_type)
    \/ line59
    \/ line60
    \/ line61
    \/ line62
    \/ line69
    \/ line70
    \/ line71
    \/ \E price \in ThreadPrices : get_status_thread(price)

SpecThreads == Init /\ [][NextThreads]_vars

\* ====================================================== binary64 numbers
\* The ledger is constructed with Python floats and computes on them.  The
\* definitions below are IEEE-754 binary64 arithmetic (round to nearest,
\* ties to even), which is what Python's float operators do; they are used
\* where the result of a rounding decides a claim.
\*
\* A natural number of any size is a sequence of limbs, least significant
\* first, in base Limb, without leading zero limbs; <<>> is zero.
Limb == 32768
LimbBits == 15

RECURSIVE Pow2(_)
Pow2(n) == IF n = 0 THEN 1 ELSE 2 * Pow2(n - 1)

RECURSIVE BNorm(_)
BNorm(a) ==
    IF a = <<>> THEN <<>>
    ELSE IF a[Len(a)] = 0 THEN BNorm(SubSeq(a, 1, Len(a) - 1)) ELSE a

RECURSIVE BFromInt(_)
BFromInt(n) == IF n = 0 THEN <<>> ELSE <<n % Limb>> \o BFromInt(n \div Limb)

RECURSIVE BToInt(_)
BToInt(a) == IF a = <<>> THEN 0 ELSE a[1] + Limb * BToInt(Tail(a))

BLimb(a, i) == IF i <= Len(a) THEN a[i] ELSE 0

\* -1, 0 or 1 as a < b, a = b or a > b, comparing from limb i downwards
RECURSIVE BCmpFrom(_, _, _)
BCmpFrom(a, b, i) ==
    IF i = 0 THEN 0
    ELSE IF a[i] < b[i] THEN -1
    ELSE IF a[i] > b[i] THEN 1
    ELSE BCmpFrom(a, b, i - 1)

BCmp(a, b) ==
    IF Len(a) < Len(b) THEN -1
    ELSE IF Len(a) > Len(b) THEN 1
    ELSE BCmpFrom(a, b, Len(a))

RECURSIVE BAddFrom(_, _, _, _)
BAddFrom(a, b, i, carry) ==
    IF i > Len(a) /\ i > Len(b)
    THEN IF carry = 0 THEN <<>> ELSE <<carry>>
    ELSE LET t == BLimb(a, i) + BLimb(b, i) + carry
         IN  <<t % Limb>> \o BAddFrom(a, b, i + 1, t \div Limb)

BAdd(a, b) == BAddFrom(a, b, 1, 0)

\* a - b for a >= b
RECURSIVE BSubFrom(_, _, _, _)
BSubFrom(a, b, i, borrow) ==
    IF i > Len(a) THEN <<>>
    ELSE LET t == a[i] - BLimb(b, i) - borrow
         IN  IF t < 0
             THEN <<t + Limb>> \o BSubFrom(a, b, i + 1, 1)
             ELSE <<t>> \o BSubFrom(a, b, i + 1, 0)

BSub(a, b) == BNorm(BSubFrom(a, b, 1, 0))

\* a * s for 0 <= s < Limb
RECURSIVE BMulSmallFrom(_, _, _, _)
BMulSmallFrom(a, s, i, carry) ==
    IF i > Len(a)
    THEN IF carry = 0 THEN <<>> ELSE <<carry>>
    ELSE LET t == a[i] * s + carry
         IN  <<t % Limb>> \o BMulSmallFrom(a, s, i + 1, t \div Limb)

BMulSmall(a, s) == IF s = 0 THEN <<>> ELSE BMulSmallFrom(a, s, 1, 0)

\* a * Limb^n
BShiftLimbs(a, n) == IF a = <<>> THEN <<>> ELSE [i \in 1..n |-> 0] \o a

RECURSIVE BMulFrom(_, _, _)
BMulFrom(a, b, i) ==
    IF i > Len(b) THEN <<>>
    ELSE BAdd(BShiftLimbs(BMulSmall(a, b[i]), i - 1), BMulFrom(a, b, i + 1))

BMul(a, b) == BMulFrom(a, b, 1)

\* a * 2^k
BShl(a, k) == BShiftLimbs(BMulSmall(a, Pow2(k % LimbBits)), k \div LimbBits)

\* floor(a / 2)
RECURSIVE BHalfFrom(_, _)
BHalfFrom(a, i) ==
    IF i > Len(a) THEN <<>>
    ELSE <<(a[i] \div 2) + (BLimb(a, i + 1) % 2) * (Limb \div 2)>>
         \o BHalfFrom(a, i + 1)

BHalf(a) == BNorm(BHalfFrom(a, 1))

BIsOdd(a) == a # <<>> /\ a[1] % 2 = 1

RECURSIVE BitsOfInt(_)
BitsOfInt(n) == IF n = 0 THEN 0 ELSE 1 + BitsOfInt(n \div 2)

\* number of binary digits of a
BBitLen(a) ==
    IF a = <<>> THEN 0 ELSE LimbBits * (Len(a) - 1) + BitsOfInt(a[Len(a)])

\* [quot, rem] of a by s for 0 < s < Limb: short division from limb i
\* downwards, rem the remainder carried in
RECURSIVE BDivSmallFrom(_, _, _, _)
BDivSmallFrom(a, s, i, rem) ==
    IF i = 0 THEN [quot |-> <<>>, rem |-> rem]
    ELSE LET t == rem * Limb + a[i]
             rest == BDivSmallFrom(a, s, i - 1, t % s)
         IN  [quot |-> Append(rest.quot, t \div s), rem |-> rest.rem]

BDivSmall(a, s) ==
    LET r == BDivSmallFrom(a, s, Len(a), 0)
    IN  [quot |-> BNorm(r.quot),
         rem |-> IF r.rem = 0 THEN <<>> ELSE <<r.rem>>]

\* floor(a / 2^k)
BShr(a, k) ==
    IF k \div LimbBits >= Len(a) THEN <<>>
    ELSE BDivSmall(SubSeq(a, (k \div LimbBits) + 1, Len(a)),
                   Pow2(k % LimbBits)).quot

\* a quotient digit is less than Limb
BDivCap(est) == IF est > Limb - 1 THEN Limb - 1 ELSE est

\* the quotient digit of r by d estimated from the two top limbs of r: for
\* r < d * Limb and the top limb of d at least Limb / 2 it is at most 2 too
\* large
BDivEstimate(d, r) ==
    BDivCap((BLimb(r, Len(d) + 1) * Limb + BLimb(r, Len(d))) \div d[Len(d)])

\* the quotient digit of r by d, top the estimate
BDivDigit(d, r, top) ==
    CHOOSE g \in {top, top - 1, top - 2} :
        /\ g >= 0
        /\ BCmp(BMulSmall(d, g), r) <= 0
        /\ \A h \in {top, top - 1, top - 2} :
              (h > g) => BCmp(BMulSmall(d, h), r) > 0

BDivTake(s, d, r, digit) ==
    [r |-> BSub(r, BMulSmall(d, digit)), q |-> <<digit>> \o s.q]

BDivWith(s, d, r) == BDivTake(s, d, r, BDivDigit(d, r, BDivEstimate(d, r)))

\* one step of long division in base Limb by d, whose top limb is at least
\* Limb / 2: s = [r, q] with r < d the remainder and q the quotient digits
\* so far, x the next limb of the dividend
BDivOne(s, x, d) == BDivWith(s, d, BNorm(<<x>> \o s.r))

\* long division of the limbs i, i - 1, ..., 1 of a by d, from s
RECURSIVE BDivLoop(_, _, _, _)
BDivLoop(s, a, d, i) ==
    IF i = 0 THEN s
    ELSE CHOOSE r \in {BDivLoop(t, a, d, i - 1) : t \in {BDivOne(s, a[i], d)}} :
            TRUE

BDivLimbs(aa, dd) == BDivLoop([r |-> <<>>, q |-> <<>>], aa, dd, Len(aa))

BDivResult(s, sh) == [quot |-> BNorm(s.q), rem |-> BShr(s.r, sh)]

\* [quot, rem] of a by d, both shifted by sh digits to bring the top limb
\* of d to Limb / 2 or more
BDivNormalized(a, d, sh) ==
    BDivResult(BDivLimbs(BShl(a, sh), BShl(d, sh)), sh)

\* [quot, rem] of a by d, d # 0
BDivMod(a, d) ==
    IF Len(d) = 1 THEN BDivSmall(a, d[1])
    ELSE BDivNormalized(a, d, LimbBits - BitsOfInt(d[Len(d)]))

RECURSIVE LowZerosOfInt(_)
LowZerosOfInt(n) == IF n % 2 = 1 THEN 0 ELSE 1 + LowZerosOfInt(n \div 2)

\* number of trailing zero binary digits of a, a # 0
RECURSIVE BLowZeros(_)
BLowZeros(a) ==
    IF a[1] = 0 THEN LimbBits + BLowZeros(Tail(a)) ELSE LowZerosOfInt(a[1])

\* A binary64 number is sign * m * 2^e with sign in {1, -1} and m a natural
\* number of exactly MantBits binary digits, or m = <<>> for zero.
\* Subnormal numbers, infinities and NaN do not occur for the magnitudes
\* of the model.
MantBits == 53

FZero == [sign |-> 1, m |-> <<>>, e |-> 0]

\* sign * m * 2^e for m of MantBits or MantBits + 1 digits
FRoundCarry(sign, m, e) ==
    IF BBitLen(m) > MantBits
    THEN [sign |-> sign, m |-> BHalf(m), e |-> e + 1]
    ELSE [sign |-> sign, m |-> m, e |-> e]

\* round to nearest, ties to even: q is the number cut, twice compares
\* twice the part cut off with the unit (-1, 0, 1)
FRoundHalf(sign, q, twice, e) ==
    FRoundCarry(sign,
                IF twice > 0 \/ (twice = 0 /\ BIsOdd(q))
                THEN BAdd(q, <<1>>) ELSE q,
                e)

\* the rounding of quotient qr.quot (of MantBits or MantBits + 1 digits) and
\* remainder qr.rem of a division by dd
FRoundQuot(sign, qr, dd, e) ==
    FRoundHalf(sign, qr.quot, BCmp(BShl(qr.rem, 1), dd), e)

\* n / (d * 2^k) as quotient, remainder and divisor
FScaledDiv(n, d, k) ==
    [qr |-> BDivMod(IF k < 0 THEN BShl(n, -k) ELSE n,
                    IF k > 0 THEN BShl(d, k) ELSE d),
     dd |-> IF k > 0 THEN BShl(d, k) ELSE d]

FRoundScaled(sign, at, e) == FRoundQuot(sign, at.qr, at.dd, e)

\* n / (d * 2^k) rounded
FRoundAt(sign, n, d, e, k) ==
    FRoundScaled(sign, FScaledDiv(n, d, k), e + k)

\* the binary64 nearest to sign * (n / d) * 2^e, ties to even, for d odd
\* and dn the difference of the numbers of digits of n and d: the quotient
\* of n by d * 2^k is given MantBits digits
FRoundDigits(sign, n, d, e, dn) ==
    FRoundAt(sign, n, d, e,
             IF (IF dn >= 0 THEN BCmp(n, BShl(d, dn)) >= 0
                            ELSE BCmp(BShl(n, -dn), d) >= 0)
             THEN dn - (MantBits - 1) ELSE dn - MantBits)

FRoundOdd(sign, n, d, e) ==
    FRoundDigits(sign, n, d, e, BBitLen(n) - BBitLen(d))

\* the binary64 nearest to sign * (n / d) * 2^e, ties to even, t the
\* number of trailing zero digits of d
FRoundStripped(sign, n, d, e, t) == FRoundOdd(sign, n, BShr(d, t), e - t)

\* the binary64 nearest to sign * (n / d) * 2^e, ties to even
FRound(sign, n, d, e) ==
    IF n = <<>> THEN FZero ELSE FRoundStripped(sign, n, d, e, BLowZeros(d))

\* sign * n * 2^e rounded, q the k > 0 leading digits of n kept
FRoundCut(sign, n, q, k, e) ==
    FRoundHalf(sign, q,
               BCmp(BShl(BSub(n, BShl(q, k)), 1), BShl(<<1>>, k)), e + k)

\* sign * n * 2^e rounded, k the number of digits of n beyond MantBits
FRoundShift(sign, n, k, e) ==
    IF k <= 0 THEN [sign |-> sign, m |-> BShl(n, -k), e |-> e + k]
    ELSE FRoundCut(sign, n, BShr(n, k), k, e)

\* the binary64 nearest to sign * n * 2^e, ties to even
FRoundInt(sign, n, e) ==
    IF n = <<>> THEN FZero
    ELSE FRoundShift(sign, n, BBitLen(n) - MantBits, e)

\* the float of a decimal literal: num / den
FromRatio(num, den) ==
    FRound(IF num < 0 THEN -1 ELSE 1, BFromInt(Abs(num)), BFromInt(den), 0)

\* the float of an int
FromInt(n) == FRoundInt(IF n < 0 THEN -1 ELSE 1, BFromInt(Abs(n)), 0)

\* The operators FNeg, FMul, FDiv, FCmp, FAdd and FFloor take the value of
\* each argument once and compute on the values.
FNegOf(a) == IF a.m = <<>> THEN a ELSE [a EXCEPT !.sign = -a.sign]

FNeg(a) == CHOOSE r \in {FNegOf(x) : x \in {a}} : TRUE

FAbs(a) == [a EXCEPT !.sign = 1]

FMulOf(a, b) == FRoundInt(a.sign * b.sign, BMul(a.m, b.m), a.e + b.e)

FMul(a, b) == CHOOSE r \in {FMulOf(x, y) : x \in {a}, y \in {b}} : TRUE

\* a / b for b # 0
FDivOf(a, b) == FRound(a.sign * b.sign, a.m, b.m, a.e - b.e)

FDiv(a, b) == CHOOSE r \in {FDivOf(x, y) : x \in {a}, y \in {b}} : TRUE

FIsZero(a) == a.m = <<>>

\* the comparison of a and b, of the same sign and not zero, e the smaller
\* of their exponents
FCmpAt(a, b, e) ==
    a.sign * BCmp(BShl(a.m, a.e - e), BShl(b.m, b.e - e))

\* -1, 0 or 1 as a < b, a = b or a > b
FCmpOf(a, b) ==
    IF FIsZero(a) /\ FIsZero(b) THEN 0
    ELSE IF FIsZero(a) THEN -b.sign
    ELSE IF FIsZero(b) THEN a.sign
    ELSE IF a.sign # b.sign THEN a.sign
    ELSE FCmpAt(a, b, IF a.e < b.e THEN a.e ELSE b.e)

FCmp(a, b) == CHOOSE r \in {FCmpOf(x, y) : x \in {a}, y \in {b}} : TRUE

\* am - bm or bm - am with its sign, c comparing am with bm
FAddOpposite(sa, sb, am, bm, c, e) ==
    IF c = 0 THEN FZero
    ELSE IF c > 0 THEN FRoundInt(sa, BSub(am, bm), e)
    ELSE FRoundInt(sb, BSub(bm, am), e)

\* sa * am * 2^e + sb * bm * 2^e
FAddAligned(sa, sb, am, bm, e) ==
    IF sa = sb THEN FRoundInt(sa, BAdd(am, bm), e)
    ELSE FAddOpposite(sa, sb, am, bm, BCmp(am, bm), e)

FAddAt(a, b, e) ==
    FAddAligned(a.sign, b.sign, BShl(a.m, a.e - e), BShl(b.m, b.e - e), e)

FAddOf(a, b) ==
    IF FIsZero(a) THEN b
    ELSE IF FIsZero(b) THEN a
    ELSE FAddAt(a, b, IF a.e < b.e THEN a.e ELSE b.e)

FAdd(a, b) == CHOOSE r \in {FAddOf(x, y) : x \in {a}, y \in {b}} : TRUE

FSub(a, b) == FAdd(a, FNeg(b))

FLt(a, b) == FCmp(a, b) < 0
FGt(a, b) == FCmp(a, b) > 0
\* math.floor(a), an int
FFloorCut(a, q) ==
    IF a.sign = 1 THEN BToInt(q)
    ELSE IF BShl(q, -a.e) = a.m THEN -BToInt(q) ELSE -(BToInt(q) + 1)

FFloorOf(a) ==
    IF FIsZero(a) THEN 0
    ELSE IF a.e >= 0 THEN a.sign * BToInt(BShl(a.m, a.e))
    ELSE FFloorCut(a, BShr(a.m, -a.e))

FFloor(a) == CHOOSE r \in {FFloorOf(x) : x \in {a}} : TRUE

\* ============================================ the ledger on binary64 numbers
\* PortfolioManager and TradingAgent with every number a binary64, as the
\* Python code computes them.  An int of the code (0, 1, 10 ** precision,
\* an int leverage or price) is the float of the same value: the operators
\* of the code give the same results on both.

\* bound: number of calls of open_long, open_short, close_position and
\* analyze explored in one behaviour
MaxAgentCalls == 2

\* the Python value None where a float is expected
PyNone == [none |-> TRUE]

\* self.fee_rate, the default 0.001 of __init__
fee_rate == FromRatio(FeeNum, FeeDen)
\* line 90: factor = 10 ** self.precision
factor == FromInt(Pow10(precision))
FOne == FromInt(1)

\* initial_capital arguments of __init__: 100 (the default) and 99.099
InitialCapitals64 == {FromInt(100), FromRatio(99099, 1000)}
\* leverage arguments of __init__
Leverages64 == {FromInt(l) : l \in Leverages}
\* price arguments of open_long and open_short
OpenPrices == {FromInt(90)}
\* price arguments of close_position
ClosePrices == {FromInt(40), FromInt(110)}
\* size arguments: None (the default) and 1.001
Sizes == {PyNone, FromRatio(1001, 1000)}
\* price arguments of a direct call of calculate_position
SizingPrices == {FromInt(-100), FromInt(0), FromInt(90)}
\* price arguments of get_status
StatusPrices == {FromInt(110)}

\* PortfolioManager.__init__ and TradingAgent.__init__
InitTrading ==
    /\ initial_capital \in InitialCapitals64
    /\ capital = initial_capital
    /\ available_capital = initial_capital
    /\ position = FZero
    /\ open_price = PyNone
    /\ leverage \in Leverages64
    /\ call = [op |-> "init", price |-> FZero, size |-> PyNone]
    /\ raised = "none"
    /\ returned = ReturnNone
    /\ ncalls = 0
    /\ capital_before_open = initial_capital
    /\ trades = <<>>
    /\ sent = 0
    /\ pc = Idle
    /\ observed = NotObserved
    /\ trade_log = <<>>
    /\ profit_log = <<>>

\* lines 89-91: math.floor(value * factor) / factor
truncate_to_precision(value) ==
    FDiv(FromInt(FFloor(FMul(value, factor))), factor)

\* line 32, the divisor: price * (1 + self.fee_rate * self.leverage)
sizing_divisor(price) == FMul(price, FAdd(FOne, FMul(fee_rate, leverage)))

\* line 32: max_position
max_position(price) ==
    FDiv(FMul(available_capital, leverage), sizing_divisor(price))

\* min(a, b) of Python
PyMinOf(a, b) == IF FLt(b, a) THEN b ELSE a

PyMin(a, b) == CHOOSE r \in {PyMinOf(x, y) : x \in {a}, y \in {b}} : TRUE

\* lines 34-37: the position before truncation
untruncated_position(price, size) ==
    IF size # PyNone THEN PyMin(size, max_position(price))
    ELSE max_position(price)

\* PortfolioManager.calculate_position(price, size): what it raises and
\* what it returns
calculated_position(price, size) ==
    IF FIsZero(sizing_divisor(price))
    THEN [raised |-> "ZeroDivisionError", value |-> FZero]
    ELSE [raised |-> "none",
          value |-> truncate_to_precision(untruncated_position(price, size))]

\* the ledger fields after a call that raised: as before the call
Failed(kind) ==
    [raised |-> kind, capital |-> capital,
     available_capital |-> available_capital, position |-> position,
     open_price |-> open_price, returned |-> ReturnNone]

\* lines 59-62
Opened(pos, price, fee64, total_cost64) ==
    [raised |-> "none",
     position |-> pos,
     open_price |-> price,
     capital |-> FSub(capital, fee64),
     available_capital |-> FSub(available_capital, total_cost64),
     returned |-> ReturnNone]

\* lines 69-72
ClosedAt(capital64, gain64) ==
    [raised |-> "none",
     capital |-> capital64,
     available_capital |-> capital64,
     position |-> FZero,
     open_price |-> open_price,
     returned |-> ReturnValue(gain64)]

\* line 69: self.capital += gain - fee
ClosedWith(gain64, fee64) ==
    ClosedAt(FAdd(capital, FSub(gain64, fee64)), gain64)

\* lines 68-72
Closed(price, fee64) ==
    ClosedWith(FMul(position, FSub(price, open_price)), fee64)

\* lines 51-74, with the fee of line 48 and the total cost of line 50
update_with(pos, price, trade_type, fee64, total_cost64) ==
    IF trade_type = "open"
    THEN IF ~FIsZero(position) THEN Failed("AlreadyOpen")
         ELSE IF FGt(total_cost64, available_capital)
              THEN Failed("InsufficientCapital")
              ELSE Opened(pos, price, fee64, total_cost64)
    ELSE IF trade_type = "close"
         THEN IF FIsZero(position) THEN Failed("NoOpenPosition")
              ELSE Closed(price, fee64)
         ELSE Failed("InvalidAction")

\* line 50: total_cost = margin_cost + fee
update_costed(pos, price, trade_type, fee64, margin_cost64) ==
    update_with(pos, price, trade_type, fee64, FAdd(margin_cost64, fee64))

\* PortfolioManager.update_balance(position, price, trade_type) on binary64
\* numbers: what it raises, the ledger fields after it, what it returns
balance_update(pos, price, trade_type) ==
    update_costed(pos, price, trade_type,
                  FMul(FMul(FAbs(pos), price), fee_rate),
                  FDiv(FMul(FAbs(pos), price), leverage))

\* get_status, were the unrealized gain net of a closing fee
status_NetOfFee(price) ==
    LET gain64 == IF ~FIsZero(position)
                  THEN FSub(FMul(position, FSub(price, open_price)),
                            FMul(FMul(FAbs(position), price), fee_rate))
                  ELSE FZero
    IN  [capital |-> FAdd(capital, gain64),
         position |-> position,
         available_capital |-> available_capital]

\* lines 81-87: the dictionary get_status returns
status(price) ==
    LET gain64 == IF ~FIsZero(position)
                  THEN FMul(position, FSub(price, open_price))
                  ELSE FZero
    IN  [capital |-> FAdd(capital, gain64),
         position |-> position,
         available_capital |-> available_capital]

\* the ledger takes the fields of u
Commit(u) ==
    /\ capital' = u.capital
    /\ available_capital' = u.available_capital
    /\ position' = u.position
    /\ open_price' = u.open_price
    /\ UNCHANGED initial_capital

\* an exception leaves the handler before anything was assigned
AgentRaise(kind) ==
    /\ raised' = kind
    /\ returned' = ReturnNone
    /\ UNCHANGED <<ledger, trades, sent, capital_before_open>>

\* calculate_position, were it to store the quantity it computes in
\* self.position
calculate_position_Stores(price, size) ==
    \E r \in {calculated_position(price, size)} :
        /\ call' = [op |-> "calculate_position", price |-> price, size |-> size]
        /\ raised' = r.raised
        /\ returned' = IF r.raised = "none" THEN ReturnValue(r.value)
                                            ELSE ReturnNone
        /\ position' = r.value
        /\ UNCHANGED <<initial_capital, capital, available_capital,
                       open_price, leverage, ncalls, capital_before_open,
                       trades, sent, pc, observed, trade_log, profit_log>>

\* a direct call of PortfolioManager.calculate_position(price, size)
calculate_position(price, size) ==
    \E r \in {calculated_position(price, size)} :
        /\ call' = [op |-> "calculate_position", price |-> price, size |-> size]
        /\ raised' = r.raised
        /\ returned' = IF r.raised = "none" THEN ReturnValue(r.value)
                                            ELSE ReturnNone
        /\ UNCHANGED <<ledger, leverage, ncalls, capital_before_open,
                       trades, sent, pc, observed, trade_log, profit_log>>

\* TradingAgent.get_status(price), PortfolioManager.get_status(price)
get_status(price) ==
    \E st \in {status(price)} :
    /\ call' = [op |-> "get_status", price |-> price, size |-> PyNone]
    /\ raised' = "none"
    /\ returned' = ReturnValue(st)
    /\ UNCHANGED <<ledger, leverage, ncalls, capital_before_open,
                   trades, sent, pc, observed, trade_log, profit_log>>

\* TradingAgent.open_long (side "BUY", sign 1) and TradingAgent.open_short
\* (side "SELL", sign -1): lines 52-58 and 69-75
OpenSide(op, side, sign, price, size) ==
    \E r \in {calculated_position(price, size)} :
    \E u \in {balance_update(IF sign = 1 THEN r.value ELSE FNeg(r.value),
                              price, "open")} :
        /\ ncalls < MaxAgentCalls
        /\ ncalls' = ncalls + 1
        /\ call' = [op |-> op, price |-> price, size |-> size]
        /\ UNCHANGED <<leverage, pc, observed, trade_log, profit_log>>
        /\ IF r.raised # "none" THEN AgentRaise(r.raised)
           ELSE IF u.raised # "none" THEN AgentRaise(u.raised)
           ELSE /\ Commit(u)
                /\ capital_before_open' = capital
                /\ trades' = Append(trades,
                        [type |-> "open", side |-> side, price |-> price,
                         size |-> r.value])
                /\ sent' = sent + 1
                /\ raised' = "none"
                /\ returned' = ReturnNone

open_long(price, size) == OpenSide("open_long", "BUY", 1, price, size)

open_short(price, size) == OpenSide("open_short", "SELL", -1, price, size)

\* TradingAgent.close_position(price): lines 85-93.  Line 90 reads
\* self.position, an attribute a TradingAgent does not have: the
\* AttributeError leaves the handler after the ledger and trades were
\* updated and before the notifier is called.
close_position(price) ==
    \E u \in {balance_update(position, price, "close")} :
        /\ ncalls < MaxAgentCalls
        /\ ncalls' = ncalls + 1
        /\ call' = [op |-> "close_position", price |-> price, size |-> PyNone]
        /\ UNCHANGED <<leverage, pc, observed, trade_log, profit_log>>
        /\ IF u.raised # "none" THEN AgentRaise(u.raised)
           ELSE /\ Commit(u)
                /\ trades' = Append(trades,
                        [type |-> "close",
                         side |-> IF FGt(position, FZero) THEN "SELL"
                                                          ELSE "BUY",
                         price |-> price, size |-> FAbs(position)])
                /\ raised' = "AttributeError"
                /\ returned' = ReturnNone
                /\ UNCHANGED <<sent, capital_before_open>>

\* TradingAgent.analyze(historical_data): line 124 reads self.profit_log,
\* an attribute a TradingAgent does not have; lines 125-169 are not reached
analyze ==
    /\ ncalls < MaxAgentCalls
    /\ ncalls' = ncalls + 1
    /\ call' = [op |-> "analyze", price |-> FZero, size |-> PyNone]
    /\ UNCHANGED <<leverage, pc, observed, trade_log, profit_log>>
    /\ AgentRaise("AttributeError")

NextTrading ==
    \/ \E price \in OpenPrices, size \in Sizes : open_long(price, size)
    \/ \E price \in OpenPrices, size \in Sizes : open_short(price, size)
    \/ \E price \in ClosePrices : close_position(price)
    \/ analyze
    \/ \E price \in SizingPrices, size \in Sizes :
          calculate_position(price, size)
    \/ \E price \in StatusPrices : get_status(price)

SpecTrading == InitTrading /\ [][NextTrading]_vars

\* ------------------------------------------------------------------------
\* truncate_to_precision called on its own

\* value arguments of truncate_to_precision: 1.0005, 1.0006, ..., 1.0034
TruncationInputs == {FromRatio(k, 10000) : k \in 10005..10034}

\* PortfolioManager.truncate_to_precision(value): lines 89-91; the caller
\* passes a new value or the value the last call returned
truncate(value) ==
    \E r \in {truncate_to_precision(value)} :
        /\ call' = [op |-> "truncate_to_precision", value |-> value]
        /\ raised' = "none"
        /\ returned' = ReturnValue(r)
        /\ UNCHANGED <<ledger, leverage, ncalls, capital_before_open,
                       trades, sent, pc, observed, trade_log, profit_log>>

NextTruncate ==
    \/ \E value \in TruncationInputs : truncate(value)
    \/ call.op = "truncate_to_precision" /\ truncate(returned.value)

SpecTruncate == InitTrading /\ [][NextTruncate]_vars

\* ------------------------------------------------------------------------
\* BacktestAgent (src/BacktestAgent.py) on the same ledger

\* bound: number of calls of open_position, close_position and analyze
\* explored in one behaviour
MaxBacktestCalls == 2

\* side arguments of open_position
Sides == {"BUY", "SELL", "HOLD"}
\* size arguments of open_position: None (the default), 1.001 and -1
BacktestSizes == {PyNone, FromRatio(1001, 1000), FromInt(-1)}

\* line 32: position = size if size else calculate_position(price); None
\* and 0 are false, every other size is taken as it is
sized_position(price, size) ==
    IF size # PyNone /\ ~FIsZero(size)
    THEN [raised |-> "none", value |-> size]
    ELSE calculated_position(price, PyNone)

\* an exception leaves the method before anything was logged; update
\* tells what became of the update_balance call
BacktestRaise(c, kind, update) ==
    /\ call' = [c EXCEPT !.update = update]
    /\ raised' = kind
    /\ returned' = ReturnNone
    /\ UNCHANGED <<ledger, capital_before_open, trade_log, profit_log>>

\* the method returns None without an exception
BacktestReturn(c, update) ==
    /\ call' = [c EXCEPT !.update = update]
    /\ raised' = "none"
    /\ returned' = ReturnNone

\* BacktestAgent.open_position(side, price, size): lines 32-39, in a call
\* observed as c
OpenPosition(c, side, price, size) ==
    \E r \in {sized_position(price, size)} :
    \E u \in {balance_update(IF side = "SELL" THEN FNeg(r.value)
                                               ELSE r.value,
                              price, "open")} :
        IF r.raised # "none" THEN BacktestRaise(c, r.raised, "not called")
        ELSE IF side \notin {"BUY", "SELL"}
        THEN /\ BacktestReturn(c, "not called")
             /\ trade_log' = Append(trade_log,
                     [type |-> "open", side |-> side, price |-> price,
                      size |-> r.value])
             /\ UNCHANGED <<ledger, capital_before_open, profit_log>>
        ELSE IF u.raised # "none" THEN BacktestRaise(c, u.raised, "raised")
        ELSE /\ BacktestReturn(c, "returned")
             /\ Commit(u)
             /\ capital_before_open' = capital
             /\ trade_log' = Append(trade_log,
                     [type |-> "open", side |-> side, price |-> price,
                      size |-> r.value])
             /\ UNCHANGED profit_log

\* BacktestAgent.close_position(price): lines 47-52, in a call observed
\* as c
ClosePosition(c, price) ==
    \E u \in {balance_update(position, price, "close")} :
        IF u.raised # "none" THEN BacktestRaise(c, u.raised, "raised")
        ELSE /\ BacktestReturn(c, "returned")
             /\ Commit(u)
             /\ trade_log' = Append(trade_log,
                     [type |-> "close",
                      side |-> IF FGt(position, FZero) THEN "SELL"
                                                       ELSE "BUY",
                      price |-> price, size |-> FAbs(position)])
             /\ profit_log' = Append(profit_log,
                     [side |-> IF FGt(position, FZero) THEN "LONG"
                                                       ELSE "SHORT",
                      profit |-> u.returned.value])
             /\ UNCHANGED capital_before_open

Analyze_NoClose(c, price) ==
    /\ BacktestReturn(c, "not called")
    /\ UNCHANGED <<ledger, capital_before_open, trade_log, profit_log>>

\* BacktestAgent.analyze(symbol, historical_data), price being the last
\* close of historical_data: lines 71-72 close a held position; lines
\* 74-102 read the logs and the ledger and print
Analyze(c, price) ==
    IF ~FIsZero(position) THEN ClosePosition(c, price)
    ELSE /\ BacktestReturn(c, "not called")
         /\ UNCHANGED <<ledger, capital_before_open, trade_log, profit_log>>

\* what a call of a BacktestAgent method observes and leaves alone
BacktestCall(op, side, price, size) ==
    [op |-> op, side |-> side, price |-> price, size |-> size,
     update |-> "not called"]

BacktestFrame == UNCHANGED <<leverage, trades, sent, pc, observed>>

\* a caller calls open_position(side, price, size)
open_position(side, price, size) ==
    /\ ncalls < MaxBacktestCalls
    /\ ncalls' = ncalls + 1
    /\ BacktestFrame
    /\ OpenPosition(BacktestCall("open_position", side, price, size),
                    side, price, size)

\* a caller calls BacktestAgent.close_position(price)
backtest_close_position(price) ==
    /\ ncalls < MaxBacktestCalls
    /\ ncalls' = ncalls + 1
    /\ BacktestFrame
    /\ ClosePosition(BacktestCall("close_position", "", price, PyNone),
                     price)

\* a caller calls BacktestAgent.analyze with a last close of price
backtest_analyze(price) ==
    /\ ncalls < MaxBacktestCalls
    /\ ncalls' = ncalls + 1
    /\ BacktestFrame
    /\ Analyze(BacktestCall("analyze", "", price, PyNone), price)

NextBacktest ==
    \/ \E side \in Sides, price \in OpenPrices, size \in BacktestSizes :
          open_position(side, price, size)
    \/ \E price \in ClosePrices : backtest_close_position(price)
    \/ \E price \in ClosePrices : backtest_analyze(price)

SpecBacktest == InitTrading /\ [][NextBacktest]_vars

\* ------------------------------------------------------------------------
\* the strategy loop of src/BacktestAgent.py, lines 129-137

\* bound: number of rows of the price series after the first
MaxBars == 3

\* close prices of the series
StrategyPrices == {FromInt(90), FromInt(110), FromInt(250000)}

\* one iteration of the loop, lines 130-134: price is the close of the
\* row; signal is "up" when the MACD line crosses above its signal line in
\* this row, "down" when it crosses below, "none" otherwise.  An exception
\* ends the program.
bar(price, signal) ==
    /\ raised = "none"
    /\ call.op # "analyze"
    /\ ncalls < MaxBars
    /\ ncalls' = ncalls + 1
    /\ BacktestFrame
    /\ IF FIsZero(position) /\ signal = "up"
       THEN OpenPosition(BacktestCall("bar", "BUY", price, PyNone),
                         "BUY", price, PyNone)
       ELSE IF FGt(position, FZero) /\ signal = "down"
       THEN ClosePosition(BacktestCall("bar", "", price, PyNone), price)
       ELSE /\ BacktestReturn(BacktestCall("bar", "", price, PyNone),
                              "not called")
            /\ UNCHANGED <<ledger, capital_before_open, trade_log,
                           profit_log>>

\* line 137, after the loop: analyze(symbol, df); the last close of df is
\* the price of the last row
run_analyze ==
    /\ raised = "none"
    /\ call.op # "analyze"
    /\ BacktestFrame
    /\ UNCHANGED ncalls
    /\ Analyze(BacktestCall("analyze", "", call.price, PyNone), call.price)

NextStrategy ==
    \/ \E price \in StrategyPrices, signal \in {"up", "down", "none"} :
          bar(price, signal)
    \/ run_analyze

SpecStrategy == InitTrading /\ [][NextStrategy]_vars

\* ================================================================ claims
\* The amounts the claims speak of, in money units, written from the
\* claims' own formulas.
ExpectedFee(q, p) == Abs(q) * p * FeeNum * LevScale
ExpectedMargin(q, p) == (Abs(q) * p * FeeDen * LevScale) \div leverage
ExpectedGain(q, p0, p) == q * (p - p0) * FeeDen * LevScale

\* a step that is a call of update_balance with the given trade_type
Calls(trade_type) == ncalls' = ncalls + 1 /\ call'.trade_type = trade_type
\* a step that is a call of update_balance that returned normally
Succeeds(trade_type) == Calls(trade_type) /\ raised' = "none"

\* C1: in every reachable state, position == 0 if and only if the stored
\* open price is None.
C1_FlatIffNoOpenPrice == (position = 0) <=> (open_price = None)

\* C2: a successful OPEN happens on a flat ledger, sets position to
\* position_delta and the open price to price, takes the fee off capital
\* and margin cost plus fee off available_capital.
C2_OpenApplies ==
    [][Succeeds("open") =>
        /\ position = 0
        /\ position' = call'.position
        /\ open_price' = call'.price
        /\ capital' = capital - ExpectedFee(call'.position, call'.price)
        /\ available_capital' = available_capital
              - (ExpectedMargin(call'.position, call'.price)
                 + ExpectedFee(call'.position, call'.price))]_vars

\* a short position has just been opened at a positive price
C2_Witness ==
    /\ call.trade_type = "open" /\ raised = "none"
    /\ position < 0 /\ position = call.position
    /\ open_price > 0 /\ open_price = call.price
    /\ available_capital < capital

\* C3: a successful CLOSE at price p of a position q opened at p0 changes
\* capital by q * (p - p0) - |q| * p * fee_rate, the fee being that of the
\* held position q whatever the position argument is.
C3_CloseFeeOfHeldPosition ==
    [][Succeeds("close") =>
        capital' = capital + ExpectedGain(position, open_price, call'.price)
                           - ExpectedFee(position, call'.price)]_vars

\* C4: a successful OPEN at price1 > 0 followed by a successful CLOSE at
\* price2 > 0 leaves capital == capital_before - open_fee + gain - close_fee
\* and available_capital == capital.
C4_RoundTrip ==
    [][(Succeeds("close") /\ open_price > 0 /\ call'.price > 0) =>
        /\ capital' = capital_before_open
                      - ExpectedFee(position, open_price)
                      + ExpectedGain(position, open_price, call'.price)
                      - ExpectedFee(position, call'.price)
        /\ available_capital' = capital']_vars

\* C5 as stated: an OPEN that follows a successful OPEN, whatever the
\* position_delta and price of the two calls, fails with AlreadyOpen and
\* changes nothing.
C5_SecondOpenFails ==
    [][(call.trade_type = "open" /\ raised = "none" /\ Calls("open")) =>
        (raised' = "AlreadyOpen" /\ UNCHANGED ledger)]_vars

\* C5 amended: an OPEN made while a position is held, in particular one
\* that follows a successful OPEN with a non-zero position_delta, fails
\* with AlreadyOpen and changes nothing.
C5_SecondOpenFailsWhenHeld ==
    [][(/\ Calls("open")
        /\ \/ position # 0
           \/ call.trade_type = "open" /\ raised = "none" /\ call.position # 0)
       => (raised' = "AlreadyOpen" /\ UNCHANGED ledger)]_vars

\* a second OPEN was refused while a short position is held
C5_Witness ==
    /\ call.trade_type = "open" /\ raised = "AlreadyOpen"
    /\ position < 0 /\ ncalls >= 2

\* C6: CLOSE on a flat ledger fails with NoOpenPosition and changes
\* nothing.
C6_CloseWhileFlatFails ==
    [][(Calls("close") /\ position = 0) =>
        (raised' = "NoOpenPosition" /\ UNCHANGED ledger)]_vars

\* a CLOSE was refused on a ledger that is flat after an open/close cycle
C6_Witness ==
    /\ call.trade_type = "close" /\ raised = "NoOpenPosition"
    /\ position = 0 /\ open_price # None /\ capital # initial_capital

\* C7: an OPEN on a flat ledger fails with InsufficientCapital and changes
\* nothing when margin_cost + fee > available_capital, and succeeds
\* otherwise, equality included.
C7_InsufficientCapital ==
    [][(Calls("open") /\ position = 0) =>
        IF ExpectedMargin(call'.position, call'.price)
             + ExpectedFee(call'.position, call'.price) > available_capital
        THEN raised' = "InsufficientCapital" /\ UNCHANGED ledger
        ELSE raised' = "none"]_vars

\* an OPEN whose cost equalled available_capital has succeeded
C7_Witness ==
    /\ call.trade_type = "open" /\ raised = "none"
    /\ position # 0 /\ open_price > 0 /\ available_capital = 0

\* C8: a call with an action other than OPEN or CLOSE fails with
\* InvalidAction and changes nothing, flat or open.
C8_InvalidAction ==
    [][(ncalls' = ncalls + 1 /\ call'.trade_type \notin {"open", "close"}) =>
        (raised' = "InvalidAction" /\ UNCHANGED ledger)]_vars

\* an invalid action was refused while a position is held
C8_Witness ==
    /\ call.trade_type = "" /\ raised = "InvalidAction" /\ position # 0

C11_PostCloseConverged ==
    (call.trade_type = "close" /\ raised = "none") =>
        (available_capital = capital /\ position = 0)

\* a leveraged position has just been closed at a loss
C11_Witness ==
    /\ call.trade_type = "close" /\ raised = "none"
    /\ leverage = 2 /\ returned.value < 0 /\ call.price > 0

\* a direct call of calculate_position has returned a quantity
Sized == call.op = "calculate_position" /\ raised = "none"

\* x is the binary64 of a multiple of 10^-precision
IsMultiple(x) ==
    \E k \in {FFloor(FMul(x, factor)), FFloor(FMul(x, factor)) + 1} :
        x = FromRatio(k, Pow10(precision))

\* the result is truncate(min(requested_size, max_position)), or
\* truncate(max_position) without a requested size
C12_TruncatedMin ==
    Sized =>
        \E m \in {max_position(call.price)} :
            returned.value = truncate_to_precision(
                IF call.size # PyNone THEN PyMin(call.size, m) ELSE m)

\* the result never exceeds max_position
C12_AtMostMax ==
    Sized => \E m \in {max_position(call.price)} : ~FGt(returned.value, m)

\* a requested size that is at most max_position and a multiple of
\* 10^-precision is returned unchanged
C12_MultipleUnchanged ==
    (Sized /\ call.size # PyNone) =>
        \E m \in {max_position(call.price)} :
            (~FGt(call.size, m) /\ IsMultiple(call.size)) =>
                returned.value = call.size

\* C12: calculate_position returns truncate(min(requested_size,
\* max_position)), or truncate(max_position) when no size is given; the
\* result never exceeds max_position, and a requested size <= max_position
\* that is a multiple of 10^-precision is returned unchanged.
C12_Sizing == C12_TruncatedMin /\ C12_AtMostMax /\ C12_MultipleUnchanged

\* C13: on a flat ledger with available_capital >= 0 and for a price > 0,
\* an OPEN with the quantity returned by calculate_position, long or short,
\* never fails with InsufficientCapital.  (A failed call leaves the ledger
\* as it was, so the ledger after the call is the ledger before it.)
C13_SizedOpenAffordable ==
    (/\ call.op \in {"open_long", "open_short"}
     /\ FIsZero(position)
     /\ ~FLt(available_capital, FZero)
     /\ FGt(call.price, FZero)) => raised # "InsufficientCapital"

\* a direct call of calculate_position with a positive price has returned
SizedAtPositivePrice == Sized /\ FGt(call.price, FZero)

\* the returned quantity is a multiple of 10^-precision
C14_Multiple == SizedAtPositivePrice => IsMultiple(returned.value)

\* the returned quantity is not greater than the untruncated value
C14_AtMostUntruncated ==
    SizedAtPositivePrice =>
        \E x \in {untruncated_position(call.price, call.size)} :
            ~FGt(returned.value, x)

\* the returned quantity is not negative
C14_NonNegative == SizedAtPositivePrice => ~FLt(returned.value, FZero)

\* C14: every quantity returned by calculate_position, in any reachable
\* ledger state and for any requested size, is a multiple of 10^-precision,
\* is not greater than the untruncated value, and is never negative.
C14_TruncatedQuantity ==
    C14_Multiple /\ C14_AtMostUntruncated /\ C14_NonNegative

\* C16: calculate_position called with a price <= 0 fails with the
\* InvalidPrice error and returns no quantity, leaving the ledger unchanged.
C16_NonPositivePriceRejected ==
    [][(/\ call'.op = "calculate_position"
        /\ ~FGt(call'.price, FZero)) =>
            (/\ raised' = "InvalidPrice"
             /\ returned' = ReturnNone
             /\ ledger' = ledger)]_vars

\* C17, the analyze part: at the end of each call of TradingAgent.analyze,
\* initial_capital is the current capital and the recorded trades are
\* cleared, while capital, available_capital and position are unchanged.
C17_AnalyzeResets ==
    [][call'.op = "analyze" =>
            (/\ initial_capital' = capital'
             /\ trades' = <<>>
             /\ capital' = capital
             /\ available_capital' = available_capital
             /\ position' = position)]_vars

\* C17, the frame part: outside analyze, initial_capital never changes.
C17_InitialCapitalFrame ==
    [][call'.op # "analyze" => initial_capital' = initial_capital]_vars

\* C17: each call of TradingAgent.analyze sets initial_capital to the
\* current capital and clears the recorded trades, leaving capital,
\* available_capital and position unchanged; outside analyze,
\* initial_capital never changes.
C17_ReportingPeriod ==
    [][(call'.op = "analyze" =>
            (/\ initial_capital' = capital'
             /\ trades' = <<>>
             /\ capital' = capital
             /\ available_capital' = available_capital
             /\ position' = position))
       /\ (call'.op # "analyze" => initial_capital' = initial_capital)]_vars

\* C18: get_status and calculate_position leave every ledger field
\* (initial_capital, capital, available_capital, position, open price)
\* unchanged, in the Flat and in the Open state and for every argument.
C18_QueriesKeepLedger ==
    [][call'.op \in {"calculate_position", "get_status"} =>
            ledger' = ledger]_vars

\* calculate_position has run with a requested size while a position is held
C18_Witness ==
    /\ call.op = "calculate_position" /\ call.size # PyNone
    /\ raised = "none" /\ ~FIsZero(position) /\ ~FIsZero(returned.value)

\* C19: get_status(price) reports capital equal to the ledger capital when
\* flat and to capital + position * (price - open_price) when a position is
\* open, no closing fee subtracted; the reported position and
\* available_capital are the ledger's.
C19_StatusReport ==
    call.op = "get_status" =>
        /\ returned.value.capital =
              (IF FIsZero(position) THEN capital
               ELSE FAdd(capital,
                         FMul(position, FSub(call.price, open_price))))
        /\ returned.value.position = position
        /\ returned.value.available_capital = available_capital

\* get_status has run on an open position whose unrealized gain is not zero
C19_Witness ==
    /\ call.op = "get_status" /\ ~FIsZero(position)
    /\ returned.value.capital # capital

\* get_status has run on a flat ledger after an open/close cycle
C19_FlatAfterCycle ==
    /\ call.op = "get_status" /\ FIsZero(position) /\ open_price # PyNone
    /\ returned.value.capital = capital

\* C20: a successful CLOSE returns gain = position * (price - open_price),
\* closing fee not subtracted, and the capital change of that CLOSE is the
\* returned value minus the closing fee (the fee of the held position); a
\* successful OPEN returns no gain.
C20_ReturnedGain ==
    [][/\ Succeeds("close") =>
            /\ returned' = ReturnValue(ExpectedGain(position, open_price,
                                                    call'.price))
            /\ capital' - capital =
                  returned'.value - ExpectedFee(position, call'.price)
       /\ Succeeds("open") => returned' = ReturnNone]_vars

\* the part of C20 about the returned values alone
C20_ReturnedValues ==
    [][/\ Succeeds("close") =>
            returned' = ReturnValue(ExpectedGain(position, open_price,
                                                 call'.price))
       /\ Succeeds("open") => returned' = ReturnNone]_vars

\* C15: a get_status call that runs concurrently with an update_balance
\* call on the same ledger observes the complete state before the
\* transition or the complete state after it, never a mixture.
C15_NoTornRead == observed.status \in {observed.before, observed.after}

\* C21: at most one position is open at a time: a non-zero position is only
\* ever changed by a successful CLOSE, and then to 0; no OPEN replaces, nets
\* with or adds to it, and its open price never changes while it is held.
C21_OnePositionAtATime ==
    [][position # 0 =>
          \/ position' = position /\ open_price' = open_price
          \/ Succeeds("close") /\ position' = 0]_vars

\* an OPEN was attempted on a held short position and was rejected
C21_Witness ==
    /\ call.trade_type = "open" /\ raised = "AlreadyOpen"
    /\ position < 0 /\ call.position > 0 /\ call.price # open_price

\* C22: the realized gain is sign-aware: closing a long above its open price
\* returns a positive gain and below it a negative one; closing a short
\* below its open price returns a positive gain and above it a negative one.
C22_SignAwareGain ==
    [][Succeeds("close") =>
          /\ (position > 0 /\ call'.price > open_price) => returned'.value > 0
          /\ (position > 0 /\ call'.price < open_price) => returned'.value < 0
          /\ (position < 0 /\ call'.price < open_price) => returned'.value > 0
          /\ (position < 0 /\ call'.price > open_price) => returned'.value < 0
      ]_vars

\* a short opened at 100 has just been closed at 90 with a positive gain
C22_Witness ==
    /\ call.trade_type = "close" /\ raised = "none"
    /\ open_price = 100 /\ call.price = 90
    /\ returned.value = ExpectedGain(-QtyDen, 100, 90) /\ returned.value > 0

HandlerCall ==
    /\ ncalls' = ncalls + 1
    /\ call'.op \in {"open_long", "open_short", "close_position"}

\* update_balance returned in that call: the ledger made the transition
LedgerSucceeded ==
    IF call'.op = "close_position" THEN ~FIsZero(position)
    ELSE raised' = "none"

\* C28: for open_long, open_short and close_position, trade records and
\* notifications correspond one-to-one to successful ledger transitions:
\* when update_balance succeeds exactly one entry is appended to trades and
\* exactly one message is sent; when it raises, nothing is appended or sent.
C28_RecordsAndNotifications ==
    [][HandlerCall =>
          IF LedgerSucceeded
          THEN Len(trades') = Len(trades) + 1 /\ sent' = sent + 1
          ELSE trades' = trades /\ sent' = sent]_vars

\* the part of C28 that holds: one entry of trades per successful ledger
\* transition, none when update_balance raises; one message per
\* successful open
C28_RecordsOneToOne ==
    [][HandlerCall =>
          /\ IF LedgerSucceeded THEN Len(trades') = Len(trades) + 1
                                ELSE trades' = trades
          /\ call'.op # "close_position" =>
                 sent' = sent + (IF LedgerSucceeded THEN 1 ELSE 0)]_vars


\* the last call was truncate_to_precision
Truncated == call.op = "truncate_to_precision"

\* C23: truncation is idempotent: truncate(truncate(x, p), p) equals
\* truncate(x, p) for every value x (precision p = 3).
C23_Idempotent ==
    [][(Truncated /\ call'.op = "truncate_to_precision"
          /\ call'.value = returned.value)
       => returned'.value = returned.value]_vars

\* the values of the model on which truncating twice equals truncating
\* once: those whose truncation is not 1.001 or 1.003
C23_IdempotentElsewhere ==
    [][(Truncated /\ call'.op = "truncate_to_precision"
          /\ call'.value = returned.value
          /\ returned.value \notin {FromRatio(1001, 1000),
                                    FromRatio(1003, 1000)})
       => returned'.value = returned.value]_vars


\* a call of BacktestAgent.open_position
OpenPositionCall == ncalls' = ncalls + 1 /\ call'.op = "open_position"

\* that call appended an 'open' entry to trade_log
OpenLogged ==
    /\ Len(trade_log') = Len(trade_log) + 1
    /\ SubSeq(trade_log', 1, Len(trade_log)) = trade_log
    /\ trade_log'[Len(trade_log')].type = "open"

\* C25: open_position appends an 'open' entry to trade_log if and only if
\* the ledger performed a successful OPEN during that call, for every side
\* and size, and the logged size is the magnitude of the ledger's
\* resulting position.
C25_LoggedIffOpened ==
    [][OpenPositionCall =>
          /\ OpenLogged <=> call'.update = "returned"
          /\ OpenLogged \/ trade_log' = trade_log
          /\ OpenLogged =>
                 trade_log'[Len(trade_log')].size = FAbs(position')]_vars

\* the part of C25 that holds: with side BUY or SELL the entry is appended
\* if and only if the ledger opened, and with a size that is not negative
\* the logged size is the magnitude of the resulting position
C25_LoggedIffOpenedBuySell ==
    [][(OpenPositionCall /\ call'.side \in {"BUY", "SELL"}) =>
          /\ OpenLogged <=> call'.update = "returned"
          /\ OpenLogged \/ trade_log' = trade_log
          /\ (OpenLogged /\ trade_log'[Len(trade_log')].size.sign = 1) =>
                 trade_log'[Len(trade_log')].size = FAbs(position')]_vars


\* C26: in the strategy loop, for every price series and signal sequence,
\* the 'open' and 'close' entries of trade_log strictly alternate starting
\* with 'open', and the ledger never raises AlreadyOpen, NoOpenPosition or
\* InsufficientCapital.
C26_AlternatingNoRaise ==
    /\ \A i \in 1..Len(trade_log) :
           trade_log[i].type = IF i % 2 = 1 THEN "open" ELSE "close"
    /\ raised \notin {"AlreadyOpen", "NoOpenPosition", "InsufficientCapital"}

\* the part of C26 that holds: the loop never calls open_position on a
\* held position or close_position on a flat ledger, and two entries that
\* follow each other are of the same type only after an 'open' of size 0
C26_GuardedCalls ==
    /\ raised \notin {"AlreadyOpen", "NoOpenPosition"}
    /\ \A i \in 1..Len(trade_log) - 1 :
           \/ trade_log[i].type # trade_log[i + 1].type
           \/ trade_log[i].type = "open" /\ FIsZero(trade_log[i].size)
    /\ trade_log # <<>> => trade_log[1].type = "open"


\* a call of BacktestAgent.close_position or analyze in which the ledger
\* performed a successful CLOSE
BacktestClosed ==
    /\ call'.op \in {"close_position", "analyze"}
    /\ call'.update = "returned"

\* C27: analyze closes any still-open position at the last close price, so
\* that after analyze returns the ledger is flat (position == 0,
\* available_capital == capital), and profit_log holds exactly one entry per
\* successful CLOSE, each carrying the gain that CLOSE returned.
C27_AnalyzeClosesAndLogs ==
    [][ncalls' = ncalls + 1 =>
          /\ (call'.op = "analyze" /\ ~FIsZero(position)) =>
                 /\ BacktestClosed
                 /\ trade_log'[Len(trade_log')].type = "close"
                 /\ trade_log'[Len(trade_log')].price = call'.price
          /\ (call'.op = "analyze" /\ raised' = "none") =>
                 FIsZero(position') /\ available_capital' = capital'
          /\ IF BacktestClosed
             THEN /\ Len(profit_log') = Len(profit_log) + 1
                  /\ SubSeq(profit_log', 1, Len(profit_log)) = profit_log
                  /\ profit_log'[Len(profit_log')].profit =
                         FMul(position, FSub(call'.price, open_price))
             ELSE profit_log' = profit_log]_vars

\* analyze has closed a short position at a loss and returned
C27_Witness ==
    /\ call.op = "analyze" /\ call.update = "returned" /\ raised = "none"
    /\ FIsZero(position) /\ available_capital = capital
    /\ Len(profit_log) = 1 /\ profit_log[1].side = "SHORT"
    /\ profit_log[1].profit.sign = -1
    /\ trade_log[Len(trade_log)].type = "close"

====
